---- MODULE Spec2Model ----
(***************************************************************************)
(* Event-driven simulation of two boxes and a rigid wall in one dimension  *)
(* (tools.elastic_collision_sim over Box.Box).  Python floats are modelled *)
(* as exact rationals: a number is a pair <<num, den>> in lowest terms     *)
(* with den > 0, and num, den are integers of unbounded size held as       *)
(* little-endian sequences of limbs in base 1000, all limbs of one sign.   *)
(* An arithmetic operator Op(a_in, ...) binds each argument once, a \in    *)
(* {a_in}, and yields the one value of its body: Python evaluates an       *)
(* argument once, before the call.                                         *)
(***************************************************************************)
EXTENDS Integers, Sequences, FiniteSets, TLC

\* ------------------------------------------------------------------------
\* Unbounded integers (Python int / the mantissa of an exact float)
\* ------------------------------------------------------------------------
Base == 1000

Dig(a_in, i_in) ==
    CHOOSE val \in {(
        IF i <= Len(a) THEN a[i] ELSE 0
        ) : a \in {a_in}, i \in {i_in}} : TRUE

MaxOf(i_in, j_in) ==
    CHOOSE val \in {(
        IF i >= j THEN i ELSE j
        ) : i \in {i_in}, j \in {j_in}} : TRUE

MinOf(i_in, j_in) ==
    CHOOSE val \in {(
        IF i <= j THEN i ELSE j
        ) : i \in {i_in}, j \in {j_in}} : TRUE

RECURSIVE Strip(_)
Strip(a_in) ==
    CHOOSE val \in {(
        IF a = <<>> \/ a[Len(a)] # 0 THEN a ELSE Strip(SubSeq(a, 1, Len(a) - 1))
        ) : a \in {a_in}} : TRUE

RECURSIVE CarryPass(_, _, _, _)
CarryPass(ds_in, i_in, c_in, acc_in) ==
    CHOOSE val \in {(
        IF i > Len(ds)
        THEN IF c = 0 \/ c = -1 THEN <<acc, c>>
             ELSE CarryPass(ds, i, c \div Base, Append(acc, c % Base))
        ELSE CarryPass(ds, i + 1, (ds[i] + c) \div Base, Append(acc, (ds[i] + c) % Base))
        ) : ds \in {ds_in}, i \in {i_in}, c \in {c_in}, acc \in {acc_in}} : TRUE

ZNeg(a_in) ==
    CHOOSE val \in {(
        [i \in 1..Len(a) |-> -a[i]]
        ) : a \in {a_in}} : TRUE

\* r is the carry pass over ds: a final carry of -1 says ds is negative
ZNormOf(ds_in, r_in) ==
    CHOOSE val \in {(
        IF r[2] = 0 THEN Strip(r[1])
        ELSE ZNeg(Strip(CarryPass(ZNeg(ds), 1, 0, <<>>)[1]))
        ) : ds \in {ds_in}, r \in {r_in}} : TRUE

ZNorm(ds_in) ==
    CHOOSE val \in {(
        ZNormOf(ds, CarryPass(ds, 1, 0, <<>>))
        ) : ds \in {ds_in}} : TRUE

ZInt(n_in) ==
    CHOOSE val \in {(
        IF n = 0 THEN <<>> ELSE IF -Base < n /\ n < Base THEN <<n>> ELSE ZNorm(<<n>>)
        ) : n \in {n_in}} : TRUE

ZSign(a_in) ==
    CHOOSE val \in {(
        IF a = <<>> THEN 0 ELSE IF a[Len(a)] > 0 THEN 1 ELSE -1
        ) : a \in {a_in}} : TRUE

ZAbs(a_in) ==
    CHOOSE val \in {(
        IF ZSign(a) < 0 THEN ZNeg(a) ELSE a
        ) : a \in {a_in}} : TRUE

ZAdd(a_in, b_in) ==
    CHOOSE val \in {(
        IF a = <<>> THEN b ELSE IF b = <<>> THEN a
        ELSE IF Len(a) = 1 /\ Len(b) = 1 THEN ZInt(a[1] + b[1])
        ELSE ZNorm([i \in 1..MaxOf(Len(a), Len(b)) |-> Dig(a, i) + Dig(b, i)])
        ) : a \in {a_in}, b \in {b_in}} : TRUE

ZSub(a_in, b_in) ==
    CHOOSE val \in {(
        ZAdd(a, ZNeg(b))
        ) : a \in {a_in}, b \in {b_in}} : TRUE

RECURSIVE ColSum(_, _, _, _, _)
ColSum(a_in, b_in, k_in, i_in, hi_in) ==
    CHOOSE val \in {(
        IF i > hi THEN 0 ELSE a[i] * b[k + 1 - i] + ColSum(a, b, k, i + 1, hi)
        ) : a \in {a_in}, b \in {b_in}, k \in {k_in}, i \in {i_in}, hi \in {hi_in}} : TRUE

ZMul(a_in, b_in) ==
    CHOOSE val \in {(
        IF a = <<>> \/ b = <<>> THEN <<>>
        ELSE IF a = <<1>> THEN b ELSE IF b = <<1>> THEN a
        ELSE IF Len(a) = 1 /\ Len(b) = 1 THEN ZInt(a[1] * b[1])
        ELSE ZNorm([k \in 1..(Len(a) + Len(b) - 1) |->
                      ColSum(a, b, k, MaxOf(1, k + 1 - Len(b)), MinOf(k, Len(a)))])
        ) : a \in {a_in}, b \in {b_in}} : TRUE

\* a < b for non-negative a, b, compared from the top limb down
RECURSIVE NLessFrom(_, _, _)
NLessFrom(a_in, b_in, i_in) ==
    CHOOSE val \in {(
        IF i = 0 THEN FALSE
        ELSE IF a[i] # b[i] THEN a[i] < b[i]
        ELSE NLessFrom(a, b, i - 1)
        ) : a \in {a_in}, b \in {b_in}, i \in {i_in}} : TRUE

NLess(a_in, b_in) ==
    CHOOSE val \in {(
        IF Len(a) # Len(b) THEN Len(a) < Len(b) ELSE NLessFrom(a, b, Len(a))
        ) : a \in {a_in}, b \in {b_in}} : TRUE

ZLess(a_in, b_in) ==
    CHOOSE val \in {(
        IF Len(a) <= 1 /\ Len(b) <= 1 THEN Dig(a, 1) < Dig(b, 1)
        ELSE ZSign(ZSub(a, b)) < 0
        ) : a \in {a_in}, b \in {b_in}} : TRUE

ZShift(a_in, s_in) ==
    CHOOSE val \in {(
        IF a = <<>> THEN a ELSE [i \in 1..s |-> 0] \o a
        ) : a \in {a_in}, s \in {s_in}} : TRUE

\* value of limbs hi, hi-1, hi-2 of a non-negative a (below 10^9)
Top3(a_in, hi_in) ==
    CHOOSE val \in {(
        Dig(a, hi) * 1000000 + (IF hi >= 2 THEN Dig(a, hi - 1) * 1000 ELSE 0)
                   + (IF hi >= 3 THEN Dig(a, hi - 2) ELSE 0)
        ) : a \in {a_in}, hi \in {hi_in}} : TRUE

Top2(a_in) ==
    CHOOSE val \in {(
        a[Len(a)] * 1000 + (IF Len(a) >= 2 THEN a[Len(a) - 1] ELSE 0)
        ) : a \in {a_in}} : TRUE

\* an under-estimate <<q, s>>, q >= 1, with q * Base^s * b <= a, made from
\* the quotient qh of the leading limbs of a >= b (a's below limb sa + 1,
\* b's, rounded up, below limb sb + 1)
QPick(q0_in, s_in) ==
    CHOOSE val \in {(
        IF q0 = 0 THEN <<1, 0>> ELSE <<q0, s>>
        ) : q0 \in {q0_in}, s \in {s_in}} : TRUE

QFix(qh_in, sa_in, sb_in) ==
    CHOOSE val \in {(
        QPick(IF sa >= sb THEN qh ELSE qh \div Base, IF sa >= sb THEN sa - sb ELSE 0)
        ) : qh \in {qh_in}, sa \in {sa_in}, sb \in {sb_in}} : TRUE

QEst(a_in, b_in) ==
    CHOOSE val \in {(
        QFix(Top3(a, Len(a)) \div (IF Len(b) <= 2 THEN Top3(b, 3) ELSE Top2(b) + 1),
             Len(a) - 3, IF Len(b) <= 2 THEN 0 ELSE Len(b) - 2)
        ) : a \in {a_in}, b \in {b_in}} : TRUE

DivAcc(qs_in, r_in) ==
    CHOOSE val \in {(
        <<ZAdd(ZShift(ZInt(qs[1]), qs[2]), r[1]), r[2]>>
        ) : qs \in {qs_in}, r \in {r_in}} : TRUE

\* quotient and remainder of non-negative a by positive b; each round takes
\* off an under-estimate of the quotient made from the leading limbs
RECURSIVE ZDivMod(_, _)
DivStep(a_in, b_in, qs_in) ==
    CHOOSE val \in {(
        DivAcc(qs, ZDivMod(ZNorm([i \in 1..Len(a) |->
                      a[i] - qs[1] * (IF i > qs[2] THEN Dig(b, i - qs[2]) ELSE 0)]), b))
        ) : a \in {a_in}, b \in {b_in}, qs \in {qs_in}} : TRUE

ZDivMod(a_in, b_in) ==
    CHOOSE val \in {(
        IF NLess(a, b) THEN <<(<<>>), a>>
        ELSE IF Len(a) <= 3
        THEN <<ZInt(Top3(a, 3) \div Top3(b, 3)), ZInt(Top3(a, 3) % Top3(b, 3))>>
        ELSE DivStep(a, b, QEst(a, b))
        ) : a \in {a_in}, b \in {b_in}} : TRUE

RECURSIVE NatGcd(_, _)
NatGcd(x_in, y_in) ==
    CHOOSE val \in {(
        IF y = 0 THEN x ELSE NatGcd(y, x % y)
        ) : x \in {x_in}, y \in {y_in}} : TRUE

CofMax == 1000000

\* Lehmer's inner loop on the leading limbs ah >= bh: the cofactors
\* <<A, B, C, D>> of the Euclid steps the leading limbs determine
RECURSIVE Lehmer(_, _, _, _, _, _)
LehmerStep(ah_in, bh_in, A_in, B_in, C_in, D_in, q_in, T1_in, T2_in) ==
    CHOOSE val \in {(
        IF T1 > CofMax \/ T1 < -CofMax \/ T2 > CofMax \/ T2 < -CofMax
        THEN <<A, B, C, D>>
        ELSE Lehmer(bh, ah - q * bh, C, D, T1, T2)
        ) : ah \in {ah_in}, bh \in {bh_in}, A \in {A_in}, B \in {B_in}, C \in {C_in}, D \in {D_in}, q \in {q_in}, T1 \in {T1_in}, T2 \in {T2_in}} : TRUE

LehmerQuot(ah_in, bh_in, A_in, B_in, C_in, D_in, q_in, q2_in) ==
    CHOOSE val \in {(
        IF q # q2 \/ q > CofMax THEN <<A, B, C, D>>
        ELSE LehmerStep(ah, bh, A, B, C, D, q, A - q * C, B - q * D)
        ) : ah \in {ah_in}, bh \in {bh_in}, A \in {A_in}, B \in {B_in}, C \in {C_in}, D \in {D_in}, q \in {q_in}, q2 \in {q2_in}} : TRUE

Lehmer(ah_in, bh_in, A_in, B_in, C_in, D_in) ==
    CHOOSE val \in {(
        IF bh + C = 0 \/ bh + D = 0 THEN <<A, B, C, D>>
        ELSE LehmerQuot(ah, bh, A, B, C, D, (ah + A) \div (bh + C), (ah + B) \div (bh + D))
        ) : ah \in {ah_in}, bh \in {bh_in}, A \in {A_in}, B \in {B_in}, C \in {C_in}, D \in {D_in}} : TRUE

\* greatest common divisor of non-negative a, b
RECURSIVE NGcd(_, _)
NGcdStep(a_in, b_in, w_in) ==
    CHOOSE val \in {(
        IF w[2] = 0 THEN NGcd(b, ZDivMod(a, b)[2])
        ELSE NGcd(ZNorm([i \in 1..Len(a) |-> w[1] * a[i] + w[2] * Dig(b, i)]),
                  ZNorm([i \in 1..Len(a) |-> w[3] * a[i] + w[4] * Dig(b, i)]))
        ) : a \in {a_in}, b \in {b_in}, w \in {w_in}} : TRUE

NGcd(a_in, b_in) ==
    CHOOSE val \in {(
        IF b = <<>> THEN a
        ELSE IF b = <<1>> THEN b
        ELSE IF NLess(a, b) THEN NGcd(b, a)
        ELSE IF Len(a) <= 3 THEN ZInt(NatGcd(Top3(a, 3), Top3(b, 3)))
        ELSE NGcdStep(a, b, Lehmer(Top3(a, Len(a)), Top3(b, Len(a)), 1, 0, 0, 1))
        ) : a \in {a_in}, b \in {b_in}} : TRUE

ZGcd(a_in, b_in) ==
    CHOOSE val \in {(
        IF a = <<1>> \/ b = <<1>> THEN <<1>> ELSE NGcd(a, b)
        ) : a \in {a_in}, b \in {b_in}} : TRUE

ZWithSign(sign_in, a_in) ==
    CHOOSE val \in {(
        IF sign < 0 THEN ZNeg(a) ELSE a
        ) : sign \in {sign_in}, a \in {a_in}} : TRUE

\* exact quotient of a by a positive divisor g of a
ZQuot(a_in, g_in) ==
    CHOOSE val \in {(
        IF g = <<1>> THEN a ELSE ZWithSign(ZSign(a), ZDivMod(ZAbs(a), g)[1])
        ) : a \in {a_in}, g \in {g_in}} : TRUE

\* ------------------------------------------------------------------------
\* Exact rationals (Python float, without rounding): <<num, den>>, den > 0,
\* in lowest terms
\* ------------------------------------------------------------------------
RNormBy(n_in, d_in, g_in) ==
    CHOOSE val \in {(
        <<ZWithSign(ZSign(d), ZQuot(n, g)), ZQuot(ZAbs(d), g)>>
        ) : n \in {n_in}, d \in {d_in}, g \in {g_in}} : TRUE

RNorm(n_in, d_in) ==
    CHOOSE val \in {(
        RNormBy(n, d, ZGcd(ZAbs(n), ZAbs(d)))
        ) : n \in {n_in}, d \in {d_in}} : TRUE

RInt(n_in) ==
    CHOOSE val \in {(
        <<ZInt(n), <<1>> >>
        ) : n \in {n_in}} : TRUE

\* a + b when g > 1 divides both denominators: t / (a[2] * bd) for bd = b[2] / g
RAddReduce(ad_in, bd_in, t_in, g2_in) ==
    CHOOSE val \in {(
        <<ZQuot(t, g2), ZMul(ZQuot(ad, g2), bd)>>
        ) : ad \in {ad_in}, bd \in {bd_in}, t \in {t_in}, g2 \in {g2_in}} : TRUE

RAddOver(a_in, bd_in, t_in, g_in) ==
    CHOOSE val \in {(
        RAddReduce(a[2], bd, t, ZGcd(ZAbs(t), g))
        ) : a \in {a_in}, bd \in {bd_in}, t \in {t_in}, g \in {g_in}} : TRUE

RAddScaled(a_in, b_in, ad_in, bd_in, g_in) ==
    CHOOSE val \in {(
        RAddOver(a, bd, ZAdd(ZMul(a[1], bd), ZMul(b[1], ad)), g)
        ) : a \in {a_in}, b \in {b_in}, ad \in {ad_in}, bd \in {bd_in}, g \in {g_in}} : TRUE

RAddBy(a_in, b_in, g_in) ==
    CHOOSE val \in {(
        IF g = <<1>>
        THEN <<ZAdd(ZMul(a[1], b[2]), ZMul(b[1], a[2])), ZMul(a[2], b[2])>>
        ELSE RAddScaled(a, b, ZQuot(a[2], g), ZQuot(b[2], g), g)
        ) : a \in {a_in}, b \in {b_in}, g \in {g_in}} : TRUE

RAdd(a_in, b_in) ==
    CHOOSE val \in {(
        IF a[2] = <<1>> /\ b[2] = <<1>> THEN <<ZAdd(a[1], b[1]), a[2]>>
        ELSE RAddBy(a, b, ZGcd(a[2], b[2]))
        ) : a \in {a_in}, b \in {b_in}} : TRUE

RNeg(a_in) ==
    CHOOSE val \in {(
        <<ZNeg(a[1]), a[2]>>
        ) : a \in {a_in}} : TRUE

RSub(a_in, b_in) ==
    CHOOSE val \in {(
        RAdd(a, RNeg(b))
        ) : a \in {a_in}, b \in {b_in}} : TRUE

RMulBy(a_in, b_in, g1_in, g2_in) ==
    CHOOSE val \in {(
        <<ZMul(ZQuot(a[1], g1), ZQuot(b[1], g2)), ZMul(ZQuot(a[2], g2), ZQuot(b[2], g1))>>
        ) : a \in {a_in}, b \in {b_in}, g1 \in {g1_in}, g2 \in {g2_in}} : TRUE

RMul(a_in, b_in) ==
    CHOOSE val \in {(
        IF a[2] = <<1>> /\ b[2] = <<1>> THEN <<ZMul(a[1], b[1]), a[2]>>
        ELSE RMulBy(a, b, ZGcd(ZAbs(a[1]), b[2]), ZGcd(ZAbs(b[1]), a[2]))
        ) : a \in {a_in}, b \in {b_in}} : TRUE

\* a / b for b # 0
RDiv(a_in, b_in) ==
    CHOOSE val \in {(
        RMul(a, <<ZWithSign(ZSign(b[1]), b[2]), ZAbs(b[1])>>)
        ) : a \in {a_in}, b \in {b_in}} : TRUE

RSign(a_in) ==
    CHOOSE val \in {(
        ZSign(a[1])
        ) : a \in {a_in}} : TRUE

RAbs(a_in) ==
    CHOOSE val \in {(
        <<ZAbs(a[1]), a[2]>>
        ) : a \in {a_in}} : TRUE

RLess(a_in, b_in) ==
    CHOOSE val \in {(
        IF a[2] = b[2] THEN ZLess(a[1], b[1])
        ELSE ZLess(ZMul(a[1], b[2]), ZMul(b[1], a[2]))
        ) : a \in {a_in}, b \in {b_in}} : TRUE

RLeq(a_in, b_in) ==
    CHOOSE val \in {(
        ~RLess(b, a)
        ) : a \in {a_in}, b \in {b_in}} : TRUE

RZero == RInt(0)

\* ------------------------------------------------------------------------
\* Bounds of the checked inputs
\* ------------------------------------------------------------------------
MaxPos == 2

MaxMass == 2

MaxLen == 2

MaxVel == 2

MaxBound == 1

MaxShift == 3

Positions == 0..MaxPos

Masses == (-1)..MaxMass

Lengths == (-1)..MaxLen

Velocities == (-MaxVel)..MaxVel

\* the wall at the origin (main's default) or away from it
Boundaries == {0, MaxBound}

\* ------------------------------------------------------------------------
\* Box
\* ------------------------------------------------------------------------
VARIABLES pc, Box1, Box2, left_bound, collisions, dt_min, sim_data, err, events,
          init_calls

vars == <<pc, Box1, Box2, left_bound, collisions, dt_min, sim_data, err, events,
          init_calls>>

Last(s) == s[Len(s)]

\* no Box object: the name is not bound
NoBox == [x |-> RZero, m |-> RZero, l |-> RZero, v |-> RZero, v0 |-> RZero, x0 |-> RZero,
          p |-> RZero, x_hist |-> <<>>, v_hist |-> <<>>, p_hist |-> <<>>, times |-> <<>>]

NoResult == [Collisions |-> -1, SmallestInterval |-> RZero]

\* Box.__init__ raises ValueError
\* a plausible slip: only negative values are refused
InitRaisesNegativeOnly(m, l) == m < 0 \/ l < 0

InitRaises(m, l) == m <= 0 \/ l <= 0

\* the object Box.__init__ leaves behind when it does not raise
BoxInit(x0, m, v0, l) ==
    [x |-> RInt(x0), m |-> RInt(m), l |-> RInt(l), v |-> RInt(v0), v0 |-> RInt(v0),
     x0 |-> RInt(x0), p |-> RMul(RInt(m), RInt(v0)),
     x_hist |-> <<RInt(x0)>>, v_hist |-> <<RInt(v0)>>,
     p_hist |-> <<RMul(RInt(m), RInt(v0))>>, times |-> <<RZero>>]

\* Box.update raises ValueError
UpdateRaises(t) == RSign(t) < 0

UpdateMomentum(m, v) == RMul(m, v)

\* a plausible slip: the elapsed time is recorded, not the cumulative time
UpdateTimeElapsedOnly(t, last) == t

UpdateTime(t, last) == RAdd(t, last)

\* a plausible slip: the momentum history is not appended to
updateNoMomentumHistory(B, v, x, t) ==
    [B EXCEPT !.x = x, !.v = v, !.p = UpdateMomentum(B.m, v),
              !.x_hist = Append(@, x), !.v_hist = Append(@, v),
              !.times = Append(@, UpdateTime(t, Last(B.times)))]

\* a plausible slip: momentum is recomputed before the velocity is assigned
updateStaleMomentum(B, v, x, t) ==
    [B EXCEPT !.x = x, !.v = v, !.p = UpdateMomentum(B.m, B.v),
              !.x_hist = Append(@, x), !.v_hist = Append(@, v),
              !.p_hist = Append(@, UpdateMomentum(B.m, B.v)),
              !.times = Append(@, UpdateTime(t, Last(B.times)))]

update(B, v, x, t) ==
    [B EXCEPT !.x = x, !.v = v, !.p = UpdateMomentum(B.m, v),
              !.x_hist = Append(@, x), !.v_hist = Append(@, v),
              !.p_hist = Append(@, UpdateMomentum(B.m, v)),
              !.times = Append(@, UpdateTime(t, Last(B.times)))]

\* Box.check_overlap raises: x2 < x1 + l1 <= x2 + l2
check_overlap(B, Other) ==
    /\ RLess(Other.x0, RAdd(B.x0, B.l))
    /\ RLeq(RAdd(B.x0, B.l), RAdd(Other.x0, Other.l))

\* ------------------------------------------------------------------------
\* elastic_collision_sim
\* ------------------------------------------------------------------------
OutsideBound(B1, B2, lb) == RLess(B1.x0, lb) \/ RLess(B2.x0, lb)

\* a plausible slip: the comparison is the wrong way round
WrongOrderReversed(B1, B2) == RLess(B1.x0, B2.x0)

WrongOrder(B1, B2) == RLess(B2.x0, B1.x0)

WallBranch(v1, v2) == RSign(v1) < 0

StopBranch(v1, v2) == ~WallBranch(v1, v2) /\ RLess(v1, v2) /\ RSign(v2) > 0

\* a plausible slip: the last branch is guarded by 'elif v1 > v2' instead of
\* being the else, so with v1 = v2 the loop takes no branch
CollisionBranchClosingOnly(v1, v2) == ~WallBranch(v1, v2) /\ RLess(v2, v1)

CollisionBranch(v1, v2) == ~WallBranch(v1, v2) /\ ~StopBranch(v1, v2)

\* a plausible slip: the distance is taken to the origin, not to the wall
WallTimeFromOrigin(x1, v1, lb) == RDiv(RAbs(x1), RAbs(v1))

WallTime(x1, v1, lb) == RDiv(RAbs(RSub(x1, lb)), RAbs(v1))

\* a plausible slip: the velocity is not reversed
WallV1fKept(v1) == v1

WallV1f(v1) == RNeg(v1)

WallV2f(v2) == v2

\* a plausible slip: the gap is measured between the left edges
CollisionTimeNoLength(x1, l1, x2, v1, v2) == RDiv(RSub(x1, x2), RSub(v2, v1))

CollisionTime(x1, l1, x2, v1, v2) == RDiv(RSub(RAdd(x1, l1), x2), RSub(v2, v1))

\* a plausible slip: v1 where v2 belongs
CollisionV1fWrongVelocity(m1, m2, v1, v2) ==
    RDiv(RAdd(RMul(RSub(m1, m2), v1), RMul(RMul(RInt(2), m2), v1)), RAdd(m1, m2))

\* a plausible slip: the factor 2 is missing
CollisionV1fNoDoubling(m1, m2, v1, v2) ==
    RDiv(RAdd(RMul(RSub(m1, m2), v1), RMul(m2, v2)), RAdd(m1, m2))

CollisionV1f(m1, m2, v1, v2) ==
    RDiv(RAdd(RMul(RSub(m1, m2), v1), RMul(RMul(RInt(2), m2), v2)), RAdd(m1, m2))

\* a plausible slip: m2 where m1 belongs
CollisionV2fWrongMass(m1, m2, v1, v2) ==
    RDiv(RAdd(RMul(RSub(m2, m1), v2), RMul(RMul(RInt(2), m2), v1)), RAdd(m1, m2))

CollisionV2f(m1, m2, v1, v2) ==
    RDiv(RAdd(RMul(RSub(m2, m1), v2), RMul(RMul(RInt(2), m1), v1)), RAdd(m1, m2))

Displace(x, v, t) == RAdd(x, RMul(v, t))

\* np.min(np.diff(times)) over a sequence of at least two entries
RMin(a, b) == IF RLess(b, a) THEN b ELSE a

RECURSIVE MinDiff(_, _)
MinDiff(times, i) ==
    IF i = Len(times) - 1 THEN RSub(times[i + 1], times[i])
    ELSE RMin(RSub(times[i + 1], times[i]), MinDiff(times, i + 1))

\* a plausible slip: only mutual collisions are counted
CountEventMutualOnly(n, kind) == IF kind = "collision" THEN n + 1 ELSE n

\* collisions += 1, on the common path of both event kinds
CountEvent(n, kind) == n + 1

Fail(kind) ==
    /\ pc' = "error"
    /\ err' = kind

\* main: Box1 = Box(...), after the boundary and the values were entered
ConstructFirst(x0, m, v0, l, lb) ==
    /\ pc = "main"
    /\ left_bound' = RInt(lb)
    /\ IF InitRaises(m, l)
       THEN Fail("InvalidParameter") /\ UNCHANGED Box1
       ELSE /\ pc' = "second"
            /\ Box1' = BoxInit(x0, m, v0, l)
            /\ UNCHANGED err
    /\ init_calls' = Append(init_calls, [m |-> m, l |-> l])
    /\ UNCHANGED <<Box2, collisions, dt_min, sim_data, events>>

\* main: Box2 = Box(...)
ConstructSecond(x0, m, v0, l) ==
    /\ pc = "second"
    /\ IF InitRaises(m, l)
       THEN Fail("InvalidParameter") /\ UNCHANGED Box2
       ELSE /\ pc' = "constructed"
            /\ Box2' = BoxInit(x0, m, v0, l)
            /\ UNCHANGED err
    /\ init_calls' = Append(init_calls, [m |-> m, l |-> l])
    /\ UNCHANGED <<Box1, left_bound, collisions, dt_min, sim_data, events>>

Construct ==
    \/ /\ pc = "main"
       /\ \E x0 \in Positions, m \in Masses, v0 \in Velocities, l \in Lengths,
             lb \in Boundaries : ConstructFirst(x0, m, v0, l, lb)
    \/ /\ pc = "second"
       /\ \E x0 \in Positions, m \in Masses, v0 \in Velocities, l \in Lengths :
             ConstructSecond(x0, m, v0, l)

\* main with the default values, the right box placed at 8 or further out
ConstructDefault ==
    \/ ConstructFirst(3, 1, 0, 1, 0)
    \/ \E d \in 0..MaxShift : ConstructSecond(8 + d, 100, -1, 1)

\* the checks before the loop
Preconditions ==
    /\ pc = "constructed"
    /\ IF check_overlap(Box1, Box2)
       THEN Fail("OverlapError") /\ UNCHANGED <<collisions, dt_min>>
       ELSE IF OutsideBound(Box1, Box2, left_bound)
       THEN Fail("BoundaryViolation") /\ UNCHANGED <<collisions, dt_min>>
       ELSE IF WrongOrder(Box1, Box2)
       THEN Fail("OrderingViolation") /\ UNCHANGED <<collisions, dt_min>>
       ELSE /\ pc' = "loop"
            /\ collisions' = 0
            /\ dt_min' = RZero
            /\ UNCHANGED err
    /\ UNCHANGED <<Box1, Box2, left_bound, sim_data, events, init_calls>>

\* the tail of an iteration that chose an event: count it, update both boxes
Advance(kind, t, v1f, v2f) ==
    /\ collisions' = CountEvent(collisions, kind)
    /\ IF UpdateRaises(t)
       THEN Fail("InvalidTime") /\ UNCHANGED <<Box1, Box2, events>>
       ELSE /\ Box1' = update(Box1, v1f, Displace(Box1.x, Box1.v, t), t)
            /\ Box2' = update(Box2, v2f, Displace(Box2.x, Box2.v, t), t)
            /\ events' = Append(events, kind)
            /\ UNCHANGED <<pc, err>>
    /\ UNCHANGED <<left_bound, dt_min, sim_data, init_calls>>

WallBounce ==
    /\ pc = "loop"
    /\ WallBranch(Box1.v, Box2.v)
    /\ Advance("wall", WallTime(Box1.x, Box1.v, left_bound), WallV1f(Box1.v), WallV2f(Box2.v))

Terminate ==
    /\ pc = "loop"
    /\ StopBranch(Box1.v, Box2.v)
    /\ IF Len(Box1.times) < 2
       THEN Fail("EmptyMin") /\ UNCHANGED <<dt_min, sim_data>>
       ELSE /\ dt_min' = MinDiff(Box1.times, 1)
            /\ sim_data' = [Collisions |-> collisions,
                            SmallestInterval |-> MinDiff(Box1.times, 1)]
            /\ pc' = "done"
            /\ UNCHANGED err
    /\ UNCHANGED <<Box1, Box2, left_bound, collisions, events, init_calls>>

MutualCollision ==
    /\ pc = "loop"
    /\ CollisionBranch(Box1.v, Box2.v)
    /\ IF RSub(Box2.v, Box1.v) = RZero
       THEN Fail("ZeroDivisionError")
            /\ UNCHANGED <<Box1, Box2, left_bound, collisions, dt_min, sim_data, events,
                           init_calls>>
       ELSE Advance("collision",
                    CollisionTime(Box1.x, Box1.l, Box2.x, Box1.v, Box2.v),
                    CollisionV1f(Box1.m, Box2.m, Box1.v, Box2.v),
                    CollisionV2f(Box1.m, Box2.m, Box1.v, Box2.v))

Init ==
    /\ pc = "main"
    /\ Box1 = NoBox
    /\ Box2 = NoBox
    /\ left_bound = RZero
    /\ collisions = 0
    /\ dt_min = RZero
    /\ sim_data = NoResult
    /\ err = "none"
    /\ events = <<>>
    /\ init_calls = <<>>

Next == Construct \/ Preconditions \/ WallBounce \/ Terminate \/ MutualCollision

Spec == Init /\ [][Next]_vars

NextDefault == ConstructDefault \/ Preconditions \/ WallBounce \/ Terminate \/ MutualCollision

SpecDefault == Init /\ [][NextDefault]_vars

\* one iteration of 'while True'
Iteration == WallBounce \/ Terminate \/ MutualCollision

\* the loop keeps running: an iteration that can execute does execute
SpecFair == Spec /\ WF_vars(Iteration)

\* ------------------------------------------------------------------------
\* Properties
\* ------------------------------------------------------------------------
Constructed(B) == B # NoBox

BothConstructed == Constructed(Box1) /\ Constructed(Box2)

Finished == pc = "done" \/ pc = "error"

RECURSIVE CountKind(_, _)
CountKind(s, kind) ==
    IF s = <<>> THEN 0
    ELSE (IF s[1] = kind THEN 1 ELSE 0) + CountKind(Tail(s), kind)

\* the default values of main
Scenario1 ==
    /\ Box1.x0 = RInt(3) /\ Box1.m = RInt(1) /\ Box1.v0 = RInt(0) /\ Box1.l = RInt(1)
    /\ Box2.x0 = RInt(8) /\ Box2.m = RInt(100) /\ Box2.v0 = RInt(-1) /\ Box2.l = RInt(1)
    /\ left_bound = RZero

\* C1: with the default values (masses 1 and 100, the right box coming in at
\* -1 from 8, the wall at 0) the run ends normally, reports 31 collisions,
\* and leaves the right box faster than the left box, both moving right.
C1_DefaultRun ==
    (Scenario1 /\ Finished) =>
        /\ pc = "done"
        /\ sim_data.Collisions = 31
        /\ RLess(Box1.v, Box2.v)
        /\ RSign(Box1.v) > 0

C1_Witness == Scenario1 /\ pc = "done" /\ Len(events) = 31

\* C2 as claimed: only mutual collisions are counted, so the reported count
\* is the number of mutual collisions of the run.
C2_Original == pc = "done" => sim_data.Collisions = CountKind(events, "collision")

\* C2, amended: every processed event, wall bounce or mutual collision,
\* adds exactly 1 to the count, so the count is the number of events
\* processed, and that is the number reported at termination.
C2_EveryEventCounts ==
    /\ pc \in {"loop", "done"} => collisions = Len(events)
    /\ pc = "done" => sim_data.Collisions = Len(events)

C2_Witness == pc = "done" /\ CountKind(events, "wall") >= 1 /\ CountKind(events, "collision") >= 1

\* equal masses, left box at rest inside the boundary, right box clear of
\* the left box and coming in
EqualMassRest ==
    /\ BothConstructed
    /\ Box1.m = Box2.m
    /\ Box1.v0 = RZero
    /\ RSign(Box2.v0) < 0
    /\ RLeq(left_bound, Box1.x0)
    /\ RLeq(RAdd(Box1.x0, Box1.l), Box2.x0)

\* C3 as claimed: after the first collision the velocities are exchanged and
\* the termination condition holds at once, so there is exactly 1 collision.
C3_Original ==
    (EqualMassRest /\ pc = "loop" /\ Len(events) = 1) =>
        /\ Box1.v = Box2.v0 /\ Box2.v = RZero
        /\ StopBranch(Box1.v, Box2.v)

\* C3, amended: the first event is a mutual collision that exchanges the
\* velocities (left -v, right 0); the left box then bounces off the wall and
\* hits the right box again, so the run ends with 3 events (collision, wall
\* bounce, collision), left box at rest and right box leaving at +v.
C3_EqualMassRun ==
    EqualMassRest =>
        /\ Len(events) >= 1 =>
              /\ events[1] = "collision"
              /\ Box1.v_hist[2] = Box2.v0 /\ Box2.v_hist[2] = RZero
        /\ Finished =>
              /\ pc = "done"
              /\ events = <<"collision", "wall", "collision">>
              /\ sim_data.Collisions = 3
              /\ Box1.v = RZero /\ Box2.v = RNeg(Box2.v0)

C3_Witness == EqualMassRest /\ pc = "done" /\ Box2.v0 = RInt(-1) /\ Box1.m = RInt(1)

\* a Box as its constructor left it
Pristine(B) ==
    \/ ~Constructed(B)
    \/ /\ B.x = B.x0 /\ B.v = B.v0
       /\ Len(B.x_hist) = 1 /\ Len(B.v_hist) = 1 /\ Len(B.p_hist) = 1 /\ Len(B.times) = 1

\* C4 as claimed: a run that ends in an error of any kind has not changed
\* either box: positions, velocities and histories are as constructed.
C4_Original == pc = "error" => Pristine(Box1) /\ Pristine(Box2)

\* the footprints [x0, x0 + l) of the two boxes intersect
FootprintsIntersect ==
    /\ RLess(Box1.x0, RAdd(Box2.x0, Box2.l))
    /\ RLess(Box2.x0, RAdd(Box1.x0, Box1.l))

PreconditionsDone == BothConstructed /\ pc # "constructed"

\* C5 as claimed: whenever the initial footprints intersect, the run fails
\* with OverlapError before any event, whatever the lengths.
C5_Original ==
    (PreconditionsDone /\ FootprintsIntersect) => (pc = "error" /\ err = "OverlapError")

\* C6 as claimed: a right box placed left of the left box always fails with
\* OrderingViolation and no other kind.
C6_Original ==
    (PreconditionsDone /\ RLess(Box2.x0, Box1.x0)) =>
        (pc = "error" /\ err = "OrderingViolation")

\* C6, amended: a right box placed left of the left box always fails before
\* any event, whatever the masses and velocities; the kind is OverlapError
\* when x0_2 < x0_1 + length1 <= x0_2 + length2, else BoundaryViolation when
\* a box starts left of the boundary, else OrderingViolation.
C6_OrderingFails ==
    (PreconditionsDone /\ RLess(Box2.x0, Box1.x0)) =>
        /\ pc = "error"
        /\ events = <<>>
        /\ Pristine(Box1) /\ Pristine(Box2)
        /\ err = IF /\ RLess(Box2.x0, RAdd(Box1.x0, Box1.l))
                    /\ RLeq(RAdd(Box1.x0, Box1.l), RAdd(Box2.x0, Box2.l))
                 THEN "OverlapError"
                 ELSE IF RLess(Box1.x0, left_bound) \/ RLess(Box2.x0, left_bound)
                 THEN "BoundaryViolation"
                 ELSE "OrderingViolation"

C6_Witness ==
    /\ PreconditionsDone /\ RLess(Box2.x0, Box1.x0)
    /\ pc = "error" /\ err = "OrderingViolation"

\* the right box starts clear of the left box
InitiallyApart == BothConstructed /\ RLeq(RAdd(Box1.x0, Box1.l), Box2.x0)

\* C7 as claimed: in a run that passed the preconditions, after every event
\* the right box is at or beyond the right edge of the left box, whatever
\* the initial velocities (stated here for boxes that start apart).
C7_Original ==
    (InitiallyApart /\ Len(events) >= 1) => RLeq(RAdd(Box1.x, Box1.l), Box2.x)

HistLens(B) == {Len(B.x_hist), Len(B.v_hist), Len(B.p_hist), Len(B.times)}

\* C8: the four histories of a box always have the same length, both boxes'
\* histories have the same length once both exist, and each processed event
\* adds exactly one entry to each of the eight sequences.
C8_HistoryLengths ==
    /\ Cardinality(HistLens(Box1)) = 1
    /\ Cardinality(HistLens(Box2)) = 1
    /\ Constructed(Box1) => HistLens(Box1) = {Len(events) + 1}
    /\ Constructed(Box2) => HistLens(Box2) = {Len(events) + 1}

C8_Witness == pc = "done" /\ Len(events) >= 3 /\ Len(Box2.times) = Len(events) + 1

NonDecreasing(times) ==
    /\ times[1] = RZero
    /\ \A i \in 1..(Len(times) - 1) : RLeq(times[i], times[i + 1])

\* C9: the event times of every box start at 0 and never decrease.
C9_TimesNonDecreasing ==
    /\ Constructed(Box1) => NonDecreasing(Box1.times)
    /\ Constructed(Box2) => NonDecreasing(Box2.times)

C9_Witness ==
    /\ Len(events) >= 3
    /\ RLess(Box1.times[2], Box1.times[3]) /\ RLess(Box1.times[3], Box1.times[4])

MomentumOk(B) ==
    /\ B.p = RMul(B.m, B.v)
    /\ Last(B.p_hist) = RMul(B.m, Last(B.v_hist))

\* C10: for every constructed box, after construction and after every
\* update, momentum is mass times velocity, and the last momentum recorded
\* is mass times the last velocity recorded.
C10_Momentum ==
    /\ Constructed(Box1) => MomentumOk(Box1)
    /\ Constructed(Box2) => MomentumOk(Box2)

C10_Witness ==
    /\ Len(events) >= 2
    /\ Box1.p # Box1.p_hist[1] /\ Box2.p # Box2.p_hist[1] /\ Box1.p # RZero

\* the run got past the checks before the loop and then ended
EndedInLoop == pc = "done" \/ (pc = "error" /\ err \in {"EmptyMin", "ZeroDivisionError", "InvalidTime"})

\* s is the least difference of consecutive entries of times
IsMinDiff(s, times) ==
    /\ \E i \in 1..(Len(times) - 1) : s = RSub(times[i + 1], times[i])
    /\ \A i \in 1..(Len(times) - 1) : RLeq(s, RSub(times[i + 1], times[i]))

\* C11 as claimed: whenever the termination condition triggers, also on the
\* first iteration with no event recorded, the run ends with a result whose
\* collision count is a non-negative integer and whose smallest interval is
\* the least difference of consecutive event times of the left box.
C11_Original ==
    (EndedInLoop /\ StopBranch(Box1.v, Box2.v)) =>
        /\ pc = "done"
        /\ sim_data.Collisions \in Nat
        /\ IsMinDiff(sim_data.SmallestInterval, Box1.times)

\* C12 as claimed: whenever the mutual-collision branch is taken the left box
\* is strictly faster than the right box, so the divisor v2 - v1 is not zero.
C12_Original ==
    (pc = "loop" /\ CollisionBranch(Box1.v, Box2.v)) => RLess(Box2.v, Box1.v)

\* C13 as claimed: in a run that passed the preconditions the elapsed time of
\* every event is >= 0, so no update is refused (stated here for boxes that
\* start apart).
C13_Original == InitiallyApart => err # "InvalidTime"

\* the box bound by the i-th constructor call of main
BoxOfCall(i) == IF i = 1 THEN Box1 ELSE Box2

\* the four histories of B hold exactly the initial entry
Seeded(B) ==
    /\ B.x_hist = <<B.x0>>
    /\ B.v_hist = <<B.v0>>
    /\ B.p_hist = <<RMul(B.m, B.v0)>>
    /\ B.times = <<RZero>>

\* C14: a constructor call with mass <= 0 or length <= 0 fails with
\* InvalidParameter and binds no box; every other call succeeds with the given
\* mass and length and, until the first event, each of the four histories
\* holds exactly one entry, the time history being [0].
C14_Construct ==
    \A i \in 1..Len(init_calls) :
        IF init_calls[i].m <= 0 \/ init_calls[i].l <= 0
        THEN /\ i = Len(init_calls)
             /\ pc = "error"
             /\ err = "InvalidParameter"
             /\ ~Constructed(BoxOfCall(i))
        ELSE /\ Constructed(BoxOfCall(i))
             /\ BoxOfCall(i).m = RInt(init_calls[i].m)
             /\ BoxOfCall(i).l = RInt(init_calls[i].l)
             /\ (i = Len(init_calls) => err # "InvalidParameter")
             /\ (events = <<>> => Seeded(BoxOfCall(i)))

\* both outcomes happened: Box1 was built and seeded, the call for Box2 was
\* refused for its zero mass
C14_Witness ==
    /\ Len(init_calls) = 2
    /\ Seeded(Box1)
    /\ init_calls[2].m = 0
    /\ init_calls[2].l > 0
    /\ err = "InvalidParameter"
    /\ ~Constructed(Box2)

\* C16: a run that passed the preconditions processes finitely many events:
\* once in the event loop it eventually ends, with a result or with an error.
C16_LoopEnds == (pc = "loop") ~> Finished

\* a run that went through several events and then ended with a result
C16_Witness == pc = "done" /\ Len(events) >= 3

\* total momentum and twice the total kinetic energy of the recorded state i
TotalMomentum(i) ==
    RAdd(RMul(Box1.m, Box1.v_hist[i]), RMul(Box2.m, Box2.v_hist[i]))

TotalEnergy(i) ==
    RAdd(RMul(Box1.m, RMul(Box1.v_hist[i], Box1.v_hist[i])),
         RMul(Box2.m, RMul(Box2.v_hist[i], Box2.v_hist[i])))

\* C17: every event keeps the total kinetic energy (so it is the same in
\* every recorded state), and every mutual collision keeps the total momentum.
C17_Conservation ==
    \A i \in 1..Len(events) :
        /\ TotalEnergy(i + 1) = TotalEnergy(i)
        /\ TotalEnergy(i + 1) = TotalEnergy(1)
        /\ (events[i] = "collision" => TotalMomentum(i + 1) = TotalMomentum(i))

\* boxes of different mass, moving, went through a mutual collision and a
\* wall bounce
C17_Witness ==
    /\ Box1.m # Box2.m
    /\ CountKind(events, "collision") >= 1
    /\ CountKind(events, "wall") >= 1
    /\ TotalEnergy(1) # RZero

\* C18: the wall bounce is the event exactly when the left box moves left,
\* whatever the right box does, and it never fails; it reverses v1, keeps v2,
\* moves the right box by v2 * t and puts the left box, which was at or to
\* the right of the wall, at the wall.
C18_WallBounce ==
    /\ EndedInLoop => RSign(Box1.v) >= 0
    /\ \A i \in 1..Len(events) :
        /\ events[i] = "wall" <=> RSign(Box1.v_hist[i]) < 0
        /\ events[i] = "wall" =>
            /\ Box1.v_hist[i + 1] = RNeg(Box1.v_hist[i])
            /\ Box2.v_hist[i + 1] = Box2.v_hist[i]
            /\ Box2.x_hist[i + 1] =
                   RAdd(Box2.x_hist[i],
                        RMul(Box2.v_hist[i], RSub(Box1.times[i + 1], Box1.times[i])))
            /\ RLeq(left_bound, Box1.x_hist[i]) => Box1.x_hist[i + 1] = left_bound

\* a wall bounce away from the origin, the left box coming from a distance
\* while the right box moves too
C18_Witness ==
    \E i \in 1..Len(events) :
        /\ events[i] = "wall"
        /\ left_bound # RZero
        /\ RLess(left_bound, Box1.x_hist[i])
        /\ Box2.v_hist[i] # RZero

\* C19: events alternate.  No two consecutive events are of the same kind;
\* every mutual collision happened with the left box strictly faster than the
\* right one; after a wall bounce the loop does not take the wall branch, and
\* after a mutual collision it takes the wall branch or the termination
\* branch.
C19_Alternation ==
    /\ \A i \in 1..(Len(events) - 1) : events[i] # events[i + 1]
    /\ \A i \in 1..Len(events) :
           events[i] = "collision" => RLess(Box2.v_hist[i], Box1.v_hist[i])
    /\ (pc = "loop" /\ events # <<>>) =>
           IF Last(events) = "wall"
           THEN ~WallBranch(Box1.v, Box2.v)
           ELSE WallBranch(Box1.v, Box2.v) \/ StopBranch(Box1.v, Box2.v)

\* a run of four events, on its way to a fifth iteration
C19_Witness == pc = "loop" /\ Len(events) >= 4

\* C20: in the state recorded by a mutual collision the boxes touch: the
\* left edge of the right box is exactly at the right edge of the left box.
C20_Contact ==
    \A i \in 1..Len(events) :
        events[i] = "collision" =>
            Box2.x_hist[i + 1] = RAdd(Box1.x_hist[i + 1], Box1.l)

\* a mutual collision of boxes that were apart and both moving
C20_Witness ==
    \E i \in 1..Len(events) :
        /\ events[i] = "collision"
        /\ RLess(RAdd(Box1.x_hist[i], Box1.l), Box2.x_hist[i])
        /\ Box1.v_hist[i] # RZero
        /\ Box2.v_hist[i] # RZero

====
